---- MODULE Spec2Model ----
(***************************************************************************)
(* A model of the folder-tree traversal and replication engine of          *)
(* assessment.py: _list_items (paginated, retried, recursive listing),     *)
(* _copy_items (depth-first replication) and _copy_items_bfs (level-order  *)
(* replication), run against a remote Drive that holds a finite tree.      *)
(***************************************************************************)
EXTENDS Integers, Sequences, FiniteSets, TLC

(***************************************************************************)
(* Configuration values read from config.json.                             *)
(***************************************************************************)
MAX_RECURSION_DEPTH == 2
MAX_RETRIES == 2
MAX_WORKERS == 2

(***************************************************************************)
(* Bounds of the model.                                                    *)
(***************************************************************************)
\* largest number of items below the source root, listing runs
MaxNodes == 4
\* number of items the remote returns per page of a listing
PageSize == 2
\* number of remote listing calls the remote lets fail in one run
MaxFailures == 2

VARIABLES
    tree,        \* the remote source tree: [n, parent, kind]
    recursive,   \* the recursive flag of the outermost _list_items call
    lstack,      \* call stack of _list_items frames, outermost first
    lret,        \* value or exception travelling from a finished call to its caller
    lcalls,      \* remote files().list(...).execute() calls issued so far
    lfails,      \* how many of them failed
    warnings,    \* "Max recursion depth reached" warnings logged so far
    event        \* what the except handler logged in the last step, if it ran

listVars == <<recursive, lstack, lret, lcalls, lfails, event>>

VARIABLES
    BATCH_SIZE,  \* config["performance"]["batch_size"]
    phase,       \* which replication the driver is running: "dfs", then "bfs"
    cstack,      \* call stack of _copy_items frames, or the one _copy_items_bfs frame
    futures,     \* the batch groups submitted to the current ThreadPoolExecutor
    dest,        \* items created in the destination by the current run
    run,         \* bookkeeping of the current run: what the remote answered
    dfsResult,   \* what _copy_items returned to the driver
    bfsResult    \* what _copy_items_bfs returned to the driver

copyVars == <<BATCH_SIZE, phase, cstack, futures, dest, run, dfsResult, bfsResult>>

VARIABLES
    counting     \* count_source_child_items_by_folder: its position and its locals

vars == <<tree, warnings, listVars, copyVars, counting>>

----------------------------------------------------------------------------
(***************************************************************************)
(* The remote tree.  Items are numbered 1..n, the start container is 0;    *)
(* a listing returns the children of a container in increasing id order.   *)
(***************************************************************************)
Root == 0

FOLDER == "application/vnd.google-apps.folder"
FILE == "text/plain"

NonDecreasing(p) == \A i \in DOMAIN p : \A j \in DOMAIN p : i <= j => p[i] <= p[j]

TreesOfSize(n) ==
    { t \in [n : {n}, parent : [1..n -> 0..(n-1)], kind : [1..n -> {FOLDER, FILE}]] :
         /\ \A i \in 1..n : t.parent[i] < i
         /\ \A i \in 1..n : t.parent[i] # Root => t.kind[t.parent[i]] = FOLDER
         /\ NonDecreasing(t.parent) }

Trees(max) == UNION { TreesOfSize(n) : n \in 0..max }

\* One entry of response['files']: name, id, mimeType (the name is the id).
Item(t, i) == [id |-> i, mimeType |-> t.kind[i]]

IsFolder(item) == item.mimeType = FOLDER

RECURSIVE ChildrenFrom(_, _, _)
ChildrenFrom(t, c, i) ==
    IF i > t.n THEN <<>>
    ELSE IF t.parent[i] = c THEN <<Item(t, i)>> \o ChildrenFrom(t, c, i + 1)
    ELSE ChildrenFrom(t, c, i + 1)

Children(t, c) == ChildrenFrom(t, c, 1)

RECURSIVE Level(_, _)
Level(t, i) == IF i = Root THEN 0 ELSE 1 + Level(t, t.parent[i])

Min(a, b) == IF a < b THEN a ELSE b

\* pageToken None is 0; token k > 0 asks for the page after the first k pages.
None == 0

ListPage(t, c, page_token) ==
    LET all == Children(t, c)
        lo == page_token * PageSize + 1
        hi == Min((page_token + 1) * PageSize, Len(all))
    IN [files |-> SubSeq(all, lo, hi),
        nextPageToken |-> IF hi < Len(all) THEN page_token + 1 ELSE None]

----------------------------------------------------------------------------
(***************************************************************************)
(* Exceptions.  origin records where the exception was raised; Python code *)
(* sees only the class, the HTTP status and the response content.          *)
(***************************************************************************)
\* rateLimitExceeded: the response content holds 'rateLimitExceeded' (Drive sends it
\* with status 403 and with status 429).
HttpError(status, rateLimitExceeded) ==
    [cls |-> "HttpError", status |-> status, rateLimitExceeded |-> rateLimitExceeded,
     origin |-> "remote", attempts |-> 0]

HttpErrors ==
    { HttpError(403, TRUE), HttpError(403, FALSE), HttpError(429, TRUE),
      HttpError(404, FALSE), HttpError(500, FALSE), HttpError(503, FALSE) }

\* ValueError is the non-mapping response; RefreshError stands for every class the
\* except clause does not name.
OtherErrors ==
    { [cls |-> c, status |-> 0, rateLimitExceeded |-> FALSE,
       origin |-> "remote", attempts |-> 0] :
        c \in {"SSLError", "TimeoutError", "ValueError", "RefreshError"} }

RemoteErrors == HttpErrors \cup OtherErrors

\* raise TimeoutError(f"Failed to list items in folder ... after ... attempts")
ListFailed(attempts) ==
    [cls |-> "TimeoutError", status |-> 0, rateLimitExceeded |-> FALSE,
     origin |-> "_list_items", attempts |-> attempts]

NoEvent == [type |-> "none"]
NoRet == [kind |-> "none"]

\* count_source_child_items_by_folder has not been called
NotCounting ==
    [pc |-> "idle", folders |-> <<>>, idx |-> 1, folder_counts |-> <<>>,
     total_nested_folder_count |-> 0]

\* except (HttpError, SSLError, TimeoutError, ValueError) as error:
Caught(error) == error.cls \in {"HttpError", "SSLError", "TimeoutError", "ValueError"}

\* The branches of the handler that fall through to time.sleep and the next attempt;
\* the else branch logs and breaks out of the retry loop.
Retried(error) ==
    \/ error.cls = "HttpError" /\ error.status \in {403, 500, 503}
    \/ error.cls = "SSLError"
    \/ error.cls = "TimeoutError"
    \/ error.cls = "ValueError"

----------------------------------------------------------------------------
(***************************************************************************)
(* _list_items.                                                            *)
(***************************************************************************)
Top == lstack[Len(lstack)]
Pop == SubSeq(lstack, 1, Len(lstack) - 1)
SetTop(f) == [lstack EXCEPT ![Len(lstack)] = f]

\* if depth > MAX_RECURSION_DEPTH: warn and return []
DepthExceeded(depth) == depth > MAX_RECURSION_DEPTH

\* if recursive and depth < MAX_RECURSION_DEPTH
MayDescend(rec, depth) == rec /\ depth < MAX_RECURSION_DEPTH

\* a faulty variant of NextDepth: the nested call is given the caller's depth
NextDepth_NotIncremented(depth) == depth

\* _list_items(service, file['id'], depth + 1, recursive)
NextDepth(depth) == depth + 1

NewListFrame(folder_id, depth, rec) ==
    [folder_id |-> folder_id, depth |-> depth, recursive |-> rec,
     items |-> <<>>, page_token |-> None, attempt |-> 0,
     files |-> <<>>, fidx |-> 1, nextPageToken |-> None, pc |-> "call"]

\* return items: the outermost call's result is the run's result; a nested call's
\* result is appended by its caller (items.extend(...)), which moves to the next file
Return(callers, items) ==
    IF callers = <<>>
    THEN [stack |-> <<>>, ret |-> [kind |-> "value", items |-> items]]
    ELSE LET c == callers[Len(callers)]
         IN [stack |-> [callers EXCEPT ![Len(callers)] =
                           [c EXCEPT !.items = c.items \o items, !.fidx = c.fidx + 1]],
             ret |-> NoRet]

\* page_token = response.get("nextPageToken"); break and return items, or loop
AfterPage(f) ==
    IF f.nextPageToken = None
    THEN Return(Pop, f.items)
    ELSE [stack |-> SetTop([f EXCEPT !.page_token = f.nextPageToken, !.pc = "call"]),
          ret |-> NoRet]

\* index of the first folder of files at or after position i, Len(files) + 1 if none
RECURSIVE NextFolder(_, _)
NextFolder(files, i) ==
    IF i > Len(files) \/ IsFolder(files[i]) THEN i ELSE NextFolder(files, i + 1)

\* a faulty variant of AttemptsLeft: the loop runs one attempt too many
AttemptsLeft_OneTooMany(attempt) == attempt < MAX_RETRIES

\* for attempt in range(MAX_RETRIES): is there another attempt after this one
AttemptsLeft(attempt) == attempt + 1 < MAX_RETRIES

\* a faulty variant of RetryFrame: the next attempt starts at the first page again
RetryFrame_FromFirstPage(f) ==
    [f EXCEPT !.attempt = f.attempt + 1, !.page_token = None, !.pc = "call"]

\* the next pass of the retry loop: items and page_token are as the failed pass
\* left them
RetryFrame(f) == [f EXCEPT !.attempt = f.attempt + 1, !.pc = "call"]

\* The except clause of the retry loop and the raise that follows the loop.
HandleError(f, error) ==
    IF ~Caught(error)
    THEN [stack |-> Pop, ret |-> [kind |-> "raise", exc |-> error],
          event |-> [type |-> "propagate", error |-> error, folder_id |-> f.folder_id]]
    ELSE IF ~Retried(error)
    THEN [stack |-> Pop, ret |-> [kind |-> "raise", exc |-> ListFailed(f.attempt + 1)],
          event |-> [type |-> "break", error |-> error, folder_id |-> f.folder_id]]
    ELSE IF AttemptsLeft(f.attempt)
    THEN [stack |-> SetTop(RetryFrame(f)),
          ret |-> NoRet,
          event |-> [type |-> "retry", error |-> error, folder_id |-> f.folder_id]]
    ELSE [stack |-> Pop, ret |-> [kind |-> "raise", exc |-> ListFailed(f.attempt + 1)],
          event |-> [type |-> "exhausted", error |-> error, folder_id |-> f.folder_id]]

\* service.files().list(...).execute() answers with a page
ListCallOk ==
    /\ lstack # <<>> /\ lret = NoRet /\ Top.pc = "call"
    /\ LET f == Top
           response == ListPage(tree, f.folder_id, f.page_token)
           g == [f EXCEPT !.items = f.items \o response.files,
                          !.files = response.files,
                          !.nextPageToken = response.nextPageToken,
                          !.fidx = 1]
       IN IF MayDescend(f.recursive, f.depth)
          THEN /\ lstack' = SetTop([g EXCEPT !.pc = "recurse"])
               /\ lret' = NoRet
          ELSE /\ lstack' = AfterPage(g).stack
               /\ lret' = AfterPage(g).ret
    /\ lcalls' = lcalls + 1
    /\ event' = NoEvent
    /\ UNCHANGED <<tree, counting, recursive, lfails, warnings, copyVars>>

\* service.files().list(...).execute() raises, or answers with a non-mapping
ListCallFail ==
    /\ lstack # <<>> /\ lret = NoRet /\ Top.pc = "call"
    /\ lfails < MaxFailures
    /\ \E error \in RemoteErrors :
         LET h == HandleError(Top, error)
         IN /\ lstack' = h.stack
            /\ lret' = h.ret
            /\ event' = h.event
    /\ lcalls' = lcalls + 1
    /\ lfails' = lfails + 1
    /\ UNCHANGED <<tree, counting, recursive, warnings, copyVars>>

\* for file in files: if it is a folder, call _list_items on it one level down
ListRecurse ==
    /\ lstack # <<>> /\ lret = NoRet /\ Top.pc = "recurse"
    /\ LET f == [Top EXCEPT !.fidx = NextFolder(Top.files, Top.fidx)]
       IN IF f.fidx > Len(f.files)
          THEN /\ lstack' = AfterPage(f).stack
               /\ lret' = AfterPage(f).ret
               /\ UNCHANGED warnings
          ELSE IF DepthExceeded(NextDepth(f.depth))
          THEN /\ lstack' = Return(SetTop(f), <<>>).stack
               /\ lret' = NoRet
               /\ warnings' = warnings + 1
          ELSE /\ lstack' = Append(SetTop(f),
                      NewListFrame(f.files[f.fidx].id, NextDepth(f.depth), f.recursive))
               /\ lret' = NoRet
               /\ UNCHANGED warnings
    /\ event' = NoEvent
    /\ UNCHANGED <<tree, counting, recursive, lcalls, lfails, copyVars>>

\* the nested call raised inside the caller's try block
ListCatch ==
    /\ lstack # <<>> /\ lret.kind = "raise"
    /\ LET h == HandleError(Top, lret.exc)
       IN /\ lstack' = h.stack
          /\ lret' = h.ret
          /\ event' = h.event
    /\ UNCHANGED <<tree, counting, recursive, lcalls, lfails, warnings, copyVars>>

InitList ==
    /\ tree \in Trees(MaxNodes)
    /\ recursive \in BOOLEAN
    /\ lstack = <<NewListFrame(Root, 0, recursive)>>
    /\ lret = NoRet
    /\ lcalls = 0
    /\ lfails = 0
    /\ warnings = 0
    /\ event = NoEvent
    /\ BATCH_SIZE = 1
    /\ phase = "list"
    /\ cstack = <<>>
    /\ futures = <<>>
    /\ dest = {}
    /\ run = [okFiles |-> 0, okFolders |-> 0, failed |-> 0, overlap |-> FALSE]
    /\ dfsResult = [kind |-> "none"]
    /\ bfsResult = [kind |-> "none"]
    /\ counting = NotCounting

NextList == ListCallOk \/ ListCallFail \/ ListRecurse \/ ListCatch

SpecList == InitList /\ [][NextList]_vars

----------------------------------------------------------------------------
(***************************************************************************)
(* Replication: what _copy_items and _copy_items_bfs share.                *)
(***************************************************************************)
\* items = _list_items(service, folder_id): the non-recursive listing, every page
\* fetched in turn, when no remote call fails
RECURSIVE ListPages(_, _, _)
ListPages(t, c, page_token) ==
    LET response == ListPage(t, c, page_token)
    IN response.files \o
         (IF response.nextPageToken = None THEN <<>>
          ELSE ListPages(t, c, response.nextPageToken))

ListAll(t, c) == ListPages(t, c, None)

\* [items[i:i + BATCH_SIZE] for i in range(0, len(items), BATCH_SIZE)], from offset i
RECURSIVE Slices(_, _, _)
Slices(items, i, size) ==
    IF i >= Len(items) THEN <<>>
    ELSE <<SubSeq(items, i + 1, Min(i + size, Len(items)))>> \o Slices(items, i + size, size)

\* _copy_items: split only if the number of items exceeds the batch size
ItemChunks(items, size) ==
    IF Len(items) > size THEN Slices(items, 0, size) ELSE <<items>>

\* _copy_items_bfs: if items: one batch per slice
ItemChunksBfs(items, size) ==
    IF items # <<>> THEN Slices(items, 0, size) ELSE <<>>

\* The id the remote gives the copy of source item i; the destination root is the
\* copy of the source root.
DestId(t, i) == t.n + 1 + i
DESTINATION_FOLDER_ID == DestId(tree, Root)

\* folder_id_map: a dict, kept as the sequence of its (key, value) pairs in
\* insertion order
\* a faulty variant of MapGet: the first entry's value, whatever the key
MapGet_First(map, key) == IF map = <<>> THEN None ELSE map[1][2]

MapGet(map, key) ==
    IF \E k \in DOMAIN map : map[k][1] = key
    THEN map[CHOOSE k \in DOMAIN map : map[k][1] = key][2]
    ELSE None

MapPut(map, key, value) ==
    IF \E k \in DOMAIN map : map[k][1] = key
    THEN [k \in DOMAIN map |-> IF map[k][1] = key THEN <<key, value>> ELSE map[k]]
    ELSE Append(map, <<key, value>>)

\* One submitted batch.execute: the chunk, the parent its requests name, the position
\* of the next per-item callback, and the counter value a callback has loaded for
\* its += 1 and not yet stored
NoReg == -1

NewFuture(chunk, parent_id) ==
    [chunk |-> chunk, parent_id |-> parent_id, state |-> "pending", pos |-> 1, reg |-> NoReg, src |-> 0]

BatchFutures(chunks, parent_id, src) ==
    [k \in DOMAIN chunks |-> [NewFuture(chunks[k], parent_id) EXCEPT !.src = src]]

Frame(mode, source_folder_id, destination_folder_id, depth) ==
    [mode |-> mode,
     source_folder_id |-> source_folder_id,
     destination_folder_id |-> destination_folder_id,
     depth |-> depth, recursive |-> TRUE,
     items |-> <<>>, copied_folder_count |-> 0, copied_file_count |-> 0,
     folder_id_map |-> <<>>, ridx |-> 1,
     queue |-> <<>>, max_workers |-> MAX_WORKERS, pc |-> "enter"]

CTop == cstack[Len(cstack)]
CPop == SubSeq(cstack, 1, Len(cstack) - 1)
CSetTop(f) == [cstack EXCEPT ![Len(cstack)] = f]

Counts(f) ==
    [copied_file_count |-> f.copied_file_count, copied_folder_count |-> f.copied_folder_count]

NewRun == [okFiles |-> 0, okFolders |-> 0, failed |-> 0, overlap |-> FALSE]

Running == { k \in DOMAIN futures : futures[k].state = "running" }
Pending == { k \in DOMAIN futures : futures[k].state = "pending" }
\* the states of a future whose batch.execute raised, by what it raised
RaisedStates == {"HttpError rateLimitExceeded", "HttpError"}
Raised == { k \in DOMAIN futures : futures[k].state \in RaisedStates }
\* a faulty variant of AllDone: the caller does not wait for its futures
AllDone_NoWait == TRUE

\* a faulty variant of AllDone: the caller stops waiting at the first exception
AllDone_UntilRaised ==
    \/ \E k \in DOMAIN futures : futures[k].state \in RaisedStates
    \/ \A k \in DOMAIN futures : futures[k].state = "done"

\* every future is over, with a result or with an exception
AllDone == \A k \in DOMAIN futures : futures[k].state \in {"done"} \cup RaisedStates

\* A worker thread runs future k: it is running already, or it is the oldest one
\* waiting and the pool has a free worker.
Runnable(k) ==
    \/ futures[k].state = "running"
    \/ /\ futures[k].state = "pending"
       /\ \A j \in Pending : k <= j
       /\ Cardinality(Running) < CTop.max_workers

\* a faulty variant of Advance: the future is not marked done after its last callback
Advance_NeverDone(fu) ==
    [fu EXCEPT !.pos = fu.pos + 1, !.reg = NoReg, !.state = "running"]

Advance(fu) ==
    [fu EXCEPT !.pos = fu.pos + 1, !.reg = NoReg,
               !.state = IF fu.pos + 1 > Len(fu.chunk) THEN "done" ELSE "running"]

\* batch.execute of a batch that holds no request returns at once
EmptyBatch(k) ==
    /\ Runnable(k) /\ futures[k].chunk = <<>>
    /\ futures' = [futures EXCEPT ![k].state = "done"]
    /\ UNCHANGED <<tree, counting, warnings, listVars, BATCH_SIZE, phase, cstack, dest, run,
                   dfsResult, bfsResult>>

\* MaxItemFailures bounds the per-item failures the remote reports to the two
\* replications of one behaviour together
MaxItemFailures == 1

ItemFailures == run.failed + (IF dfsResult.kind = "value" THEN dfsResult.run.failed ELSE 0)

\* handle_batch_response(request_id, response, exception) with an exception
CallbackException(k) ==
    /\ Runnable(k) /\ futures[k].pos <= Len(futures[k].chunk) /\ futures[k].reg = NoReg
    /\ ItemFailures < MaxItemFailures
    /\ futures' = [futures EXCEPT ![k] = Advance(futures[k])]
    /\ run' = [run EXCEPT !.failed = run.failed + 1]
    /\ UNCHANGED <<tree, counting, warnings, listVars, BATCH_SIZE, phase, cstack, dest,
                   dfsResult, bfsResult>>

\* handle_batch_response with a response: the callback loads the counter it is
\* about to add one to
CallbackLoad(k) ==
    /\ Runnable(k) /\ futures[k].pos <= Len(futures[k].chunk) /\ futures[k].reg = NoReg
    /\ LET item == futures[k].chunk[futures[k].pos]
           folder == IsFolder(item)
       IN /\ futures' = [futures EXCEPT
                 ![k].state = "running",
                 ![k].reg = IF folder THEN CTop.copied_folder_count
                            ELSE CTop.copied_file_count]
          /\ dest' = dest \cup {[id |-> DestId(tree, item.id), source |-> item.id,
                                 parent |-> futures[k].parent_id]}
          /\ run' = [run EXCEPT
                 !.okFiles = IF folder THEN @ ELSE @ + 1,
                 !.okFolders = IF folder THEN @ + 1 ELSE @,
                 !.overlap = @ \/ \E j \in DOMAIN futures : j # k /\ futures[j].reg # NoReg]
    /\ UNCHANGED <<tree, counting, warnings, listVars, BATCH_SIZE, phase, cstack,
                   dfsResult, bfsResult>>

\* copied_folder_count += 1 / copied_file_count += 1: the loaded value plus one
Increment(loaded) == loaded + 1

\* ... and stores the sum; a folder is entered in folder_id_map
CallbackStore(k) ==
    /\ futures[k].state = "running" /\ futures[k].reg # NoReg
    /\ LET item == futures[k].chunk[futures[k].pos]
           f == CTop
       IN cstack' = CSetTop(
            IF IsFolder(item)
            THEN [f EXCEPT !.copied_folder_count = Increment(futures[k].reg),
                           !.folder_id_map = MapPut(@, item.id, DestId(tree, item.id))]
            ELSE [f EXCEPT !.copied_file_count = Increment(futures[k].reg)])
    /\ futures' = [futures EXCEPT ![k] = Advance(futures[k])]
    /\ UNCHANGED <<tree, counting, warnings, listVars, BATCH_SIZE, phase, dest, run,
                   dfsResult, bfsResult>>

----------------------------------------------------------------------------
(***************************************************************************)
(* _copy_items: depth-first replication.                                   *)
(***************************************************************************)
\* if depth > MAX_RECURSION_DEPTH: warn and return zero counts
CopyDepthExceeded(depth) == depth > MAX_RECURSION_DEPTH

\* if recursive and depth < MAX_RECURSION_DEPTH
CopyMayDescend(rec, depth) == rec /\ depth < MAX_RECURSION_DEPTH

\* a faulty variant of Accumulate: = in place of +=
Accumulate_Overwrite(count, nested) == nested

\* copied_folder_count += nested_copy['copied_folder_count'], and the same for files
Accumulate(count, nested) == count + nested

\* What the driver receives, with the bookkeeping of the run that produced it.
Result(counts) ==
    [kind |-> "value", counts |-> counts, run |-> run,
     copied |-> { d.source : d \in dest }]

\* return {...}: to the driver, or into the caller's counters, whose loop moves on
CopyReturn(callers, counts) ==
    IF callers = <<>>
    THEN [stack |-> <<>>, result |-> Result(counts)]
    ELSE LET c == callers[Len(callers)]
         IN [stack |-> [callers EXCEPT ![Len(callers)] =
                [c EXCEPT !.copied_folder_count =
                              Accumulate(c.copied_folder_count, counts.copied_folder_count),
                          !.copied_file_count =
                              Accumulate(c.copied_file_count, counts.copied_file_count),
                          !.ridx = c.ridx + 1]],
             result |-> dfsResult]

ZeroCounts == [copied_file_count |-> 0, copied_folder_count |-> 0]

\* the depth check, the listing, the chunking and the submission of every chunk
CopyEnter ==
    /\ phase = "dfs" /\ cstack # <<>> /\ CTop.pc = "enter"
    /\ LET f == CTop
           items == ListAll(tree, f.source_folder_id)
       IN IF CopyDepthExceeded(f.depth)
          THEN /\ cstack' = CopyReturn(CPop, ZeroCounts).stack
               /\ dfsResult' = CopyReturn(CPop, ZeroCounts).result
               /\ warnings' = warnings + 1
               /\ UNCHANGED futures
          ELSE /\ cstack' = CSetTop([f EXCEPT !.items = items, !.pc = "wait"])
               /\ futures' = BatchFutures(ItemChunks(items, BATCH_SIZE),
                                          f.destination_folder_id, f.source_folder_id)
               /\ UNCHANGED <<dfsResult, warnings>>
    /\ UNCHANGED <<tree, counting, listVars, BATCH_SIZE, phase, dest, run, bfsResult>>

\* index of the first folder of items at or after i that folder_id_map knows
RECURSIVE NextCopied(_, _, _)
NextCopied(items, map, i) ==
    IF i > Len(items) \/ (IsFolder(items[i]) /\ MapGet(map, items[i].id) # None)
    THEN i
    ELSE NextCopied(items, map, i + 1)

\* every future has completed: the as_completed loop, the exit of the with block
\* and the second result() loop are over
CopyJoin ==
    /\ phase = "dfs" /\ cstack # <<>> /\ CTop.pc = "wait" /\ AllDone /\ Raised = {}
    /\ cstack' = CSetTop([CTop EXCEPT !.pc = "recurse", !.ridx = 1])
    /\ futures' = <<>>
    /\ UNCHANGED <<tree, counting, warnings, listVars, BATCH_SIZE, phase, dest, run,
                   dfsResult, bfsResult>>

\* the recursion over the folders just created, and the return
CopyRecurse ==
    /\ phase = "dfs" /\ cstack # <<>> /\ CTop.pc = "recurse"
    /\ LET f == [CTop EXCEPT !.ridx = NextCopied(CTop.items, CTop.folder_id_map, CTop.ridx)]
       IN IF CopyMayDescend(f.recursive, f.depth) /\ f.ridx <= Len(f.items)
          THEN /\ cstack' = Append(CSetTop(f),
                      Frame("dfs", f.items[f.ridx].id,
                            MapGet(f.folder_id_map, f.items[f.ridx].id), f.depth + 1))
               /\ UNCHANGED dfsResult
          ELSE /\ cstack' = CopyReturn(CPop, Counts(f)).stack
               /\ dfsResult' = CopyReturn(CPop, Counts(f)).result
    /\ UNCHANGED <<tree, counting, warnings, listVars, BATCH_SIZE, phase, futures, dest, run,
                   bfsResult>>

----------------------------------------------------------------------------
(***************************************************************************)
(* _copy_items_bfs: level-order replication.                               *)
(***************************************************************************)
\* the batches of one level: for each dequeued (src_id, dest_id), one batch per
\* slice of the folder's items
RECURSIVE LevelFutures(_, _, _)
LevelFutures(queue, i, size) ==
    IF i > Len(queue) THEN <<>>
    ELSE BatchFutures(ItemChunksBfs(ListAll(tree, queue[i][1]), size), queue[i][2], queue[i][1])
           \o LevelFutures(queue, i + 1, size)

\* while queue: take the whole level off the queue, list each folder and submit its
\* batches; or, the queue being empty, return the counts
BfsLevel ==
    /\ phase = "bfs" /\ cstack # <<>> /\ CTop.pc = "enter"
    /\ LET f == CTop
       IN IF f.queue = <<>>
          THEN /\ cstack' = <<>>
               /\ bfsResult' = Result(Counts(f))
               /\ UNCHANGED futures
          ELSE /\ cstack' = CSetTop([f EXCEPT !.queue = <<>>,
                                             !.folder_id_map = <<>>,
                                             !.max_workers = Min(MAX_WORKERS, Len(f.queue)),
                                             !.pc = "wait"])
               /\ futures' = LevelFutures(f.queue, 1, BATCH_SIZE)
               /\ UNCHANGED bfsResult
    /\ UNCHANGED <<tree, counting, warnings, listVars, BATCH_SIZE, phase, dest, run, dfsResult>>

\* every future of the level has completed: queue.extend(folder_id_map.items())
BfsJoin ==
    /\ phase = "bfs" /\ cstack # <<>> /\ CTop.pc = "wait" /\ AllDone
    /\ cstack' = CSetTop([CTop EXCEPT !.queue = CTop.queue \o CTop.folder_id_map,
                                      !.pc = "enter"])
    /\ futures' = <<>>
    /\ UNCHANGED <<tree, counting, warnings, listVars, BATCH_SIZE, phase, dest, run,
                   dfsResult, bfsResult>>

----------------------------------------------------------------------------
(***************************************************************************)
(* copy_source_items_to_dest_folder, called without and then with bfs      *)
(* on the same source.                                                     *)
(***************************************************************************)
MaxBatchSize == 2
MaxCopyNodes == 4

BfsFrame ==
    [Frame("bfs", Root, DESTINATION_FOLDER_ID, 0) EXCEPT
        !.queue = <<<<Root, DESTINATION_FOLDER_ID>>>>]

\* copy_source_items_to_dest_folder(bfs = True), once the depth-first run is over
StartBfs ==
    /\ phase = "dfs" /\ cstack = <<>> /\ dfsResult.kind # "none"
    /\ phase' = "bfs"
    /\ cstack' = <<BfsFrame>>
    /\ dest' = {}
    /\ run' = NewRun
    /\ UNCHANGED <<tree, counting, warnings, listVars, BATCH_SIZE, futures, dfsResult, bfsResult>>

InitCopy ==
    /\ tree \in Trees(MaxCopyNodes)
    /\ BATCH_SIZE \in 1..MaxBatchSize
    /\ phase = "dfs"
    /\ cstack = <<Frame("dfs", Root, DESTINATION_FOLDER_ID, 0)>>
    /\ futures = <<>>
    /\ dest = {}
    /\ run = NewRun
    /\ dfsResult = [kind |-> "none"]
    /\ bfsResult = [kind |-> "none"]
    /\ warnings = 0
    /\ recursive = FALSE
    /\ lstack = <<>>
    /\ lret = NoRet
    /\ lcalls = 0
    /\ lfails = 0
    /\ event = NoEvent
    /\ counting = NotCounting

NextCopy ==
    \/ CopyEnter
    \/ \E k \in DOMAIN futures : EmptyBatch(k)
    \/ \E k \in DOMAIN futures : CallbackException(k)
    \/ \E k \in DOMAIN futures : CallbackLoad(k)
    \/ \E k \in DOMAIN futures : CallbackStore(k)
    \/ CopyJoin
    \/ CopyRecurse
    \/ StartBfs
    \/ BfsLevel
    \/ BfsJoin

SpecCopy == InitCopy /\ [][NextCopy]_vars

----------------------------------------------------------------------------
(***************************************************************************)
(* Replication against a remote that also fails listings and whole batch   *)
(* groups.                                                                 *)
(***************************************************************************)
\* largest number of items below the source root, runs with such failures
MaxFaultNodes == 3
\* number of batch groups of one executor whose batch.execute raises
MaxBatchFailures == 1

\* What the driver receives when the replication raises.
Raise(exc, folder_id) ==
    [kind |-> "raise", exc |-> exc, folder_id |-> folder_id, run |-> run,
     copied |-> { d.source : d \in dest }]

\* the HttpError that batch.execute of a future in a raised state raised
BatchError(state) ==
    [HttpError(IF state = "HttpError rateLimitExceeded" THEN 403 ELSE 500,
               state = "HttpError rateLimitExceeded") EXCEPT !.origin = "batch.execute"]

\* items = _list_items(service, source_folder_id) raises in _copy_items: nothing
\* between the call and the driver catches it
CopyListFail ==
    /\ phase = "dfs" /\ cstack # <<>> /\ CTop.pc = "enter"
    /\ ~CopyDepthExceeded(CTop.depth)
    /\ cstack' = <<>>
    /\ dfsResult' = Raise(ListFailed(MAX_RETRIES), CTop.source_folder_id)
    /\ UNCHANGED <<tree, counting, warnings, listVars, BATCH_SIZE, phase, futures, dest, run,
                   bfsResult>>

\* items = _list_items(service, src_id) raises for the i-th folder of the level in
\* _copy_items_bfs: the batches of the folders before it are submitted already, and
\* the exception leaves the with block once they are over; the queue, which the
\* function never reads again, keeps the folder at its head
BfsListFail ==
    /\ phase = "bfs" /\ cstack # <<>> /\ CTop.pc = "enter" /\ CTop.queue # <<>>
    /\ \E i \in DOMAIN CTop.queue :
         /\ cstack' = CSetTop([CTop EXCEPT
                          !.queue = SubSeq(CTop.queue, i, Len(CTop.queue)),
                          !.folder_id_map = <<>>,
                          !.max_workers = Min(MAX_WORKERS, Len(CTop.queue)),
                          !.pc = "unwind"])
         /\ futures' = LevelFutures(SubSeq(CTop.queue, 1, i - 1), 1, BATCH_SIZE)
    /\ lret' = [kind |-> "raise", exc |-> ListFailed(MAX_RETRIES)]
    /\ UNCHANGED <<tree, counting, warnings, recursive, lstack, lcalls, lfails, event,
                   BATCH_SIZE, phase, dest, run, dfsResult, bfsResult>>

\* the executor has shut down: the exception leaves _copy_items_bfs
BfsRaise ==
    /\ phase = "bfs" /\ cstack # <<>> /\ CTop.pc = "unwind" /\ AllDone
    /\ cstack' = <<>>
    /\ futures' = <<>>
    /\ bfsResult' = Raise(lret.exc, CTop.queue[1][1])
    /\ lret' = NoRet
    /\ UNCHANGED <<tree, counting, warnings, recursive, lstack, lcalls, lfails, event,
                   BATCH_SIZE, phase, dest, run, dfsResult>>

\* batch.execute raises for the whole group: none of its callbacks runs
BatchFail(k) ==
    /\ Runnable(k) /\ futures[k].pos = 1 /\ futures[k].reg = NoReg
    /\ futures[k].chunk # <<>>
    /\ Cardinality(Raised) < MaxBatchFailures
    /\ \E state \in RaisedStates : futures' = [futures EXCEPT ![k].state = state]
    /\ UNCHANGED <<tree, counting, warnings, listVars, BATCH_SIZE, phase, cstack, dest, run,
                   dfsResult, bfsResult>>

\* _copy_items with a raised future: the as_completed loop logs the HttpError, the
\* second loop's future.result() raises the first of them again
CopyJoinRaise ==
    /\ phase = "dfs" /\ cstack # <<>> /\ CTop.pc = "wait" /\ AllDone /\ Raised # {}
    /\ cstack' = <<>>
    /\ futures' = <<>>
    /\ dfsResult' = Raise(BatchError(futures[CHOOSE k \in Raised : \A j \in Raised : k <= j].state),
                          CTop.source_folder_id)
    /\ UNCHANGED <<tree, counting, warnings, listVars, BATCH_SIZE, phase, dest, run, bfsResult>>

InitFault ==
    /\ tree \in Trees(MaxFaultNodes)
    /\ BATCH_SIZE \in 1..MaxBatchSize
    /\ phase = "dfs"
    /\ cstack = <<Frame("dfs", Root, DESTINATION_FOLDER_ID, 0)>>
    /\ futures = <<>>
    /\ dest = {}
    /\ run = NewRun
    /\ dfsResult = [kind |-> "none"]
    /\ bfsResult = [kind |-> "none"]
    /\ warnings = 0
    /\ recursive = FALSE
    /\ lstack = <<>>
    /\ lret = NoRet
    /\ lcalls = 0
    /\ lfails = 0
    /\ event = NoEvent
    /\ counting = NotCounting

NextFault ==
    \/ NextCopy
    \/ CopyListFail
    \/ BfsListFail
    \/ BfsRaise
    \/ \E k \in DOMAIN futures : BatchFail(k)
    \/ CopyJoinRaise

SpecFault == InitFault /\ [][NextFault]_vars

----------------------------------------------------------------------------
(***************************************************************************)
(* copy_source_items_to_dest_folder(bfs = True) on its own, with worker    *)
(* threads that keep running and a remote that answers every request.      *)
(***************************************************************************)
\* largest number of items below the source root, level-order runs
MaxBfsNodes == 3

InitBfs ==
    /\ tree \in Trees(MaxBfsNodes)
    /\ BATCH_SIZE \in 1..MaxBatchSize
    /\ phase = "bfs"
    /\ cstack = <<BfsFrame>>
    /\ futures = <<>>
    /\ dest = {}
    /\ run = NewRun
    /\ dfsResult = [kind |-> "none"]
    /\ bfsResult = [kind |-> "none"]
    /\ warnings = 0
    /\ recursive = FALSE
    /\ lstack = <<>>
    /\ lret = NoRet
    /\ lcalls = 0
    /\ lfails = 0
    /\ event = NoEvent
    /\ counting = NotCounting

NextBfs ==
    \/ BfsLevel
    \/ \E k \in DOMAIN futures : CallbackException(k)
    \/ \E k \in DOMAIN futures : CallbackLoad(k)
    \/ \E k \in DOMAIN futures : CallbackStore(k)
    \/ BfsJoin

\* the executor runs every submitted batch and the main thread runs when it can
SpecBfs == InitBfs /\ [][NextBfs]_vars /\ WF_vars(NextBfs)

----------------------------------------------------------------------------
(***************************************************************************)
(* count_source_child_items_by_folder, with listings that do not fail.     *)
(***************************************************************************)
\* largest number of items below the source root, counting runs
MaxCountNodes == 4
\* number of different names the top-level folders may carry
MaxNames == 2

\* The trees whose items carry names; the program reads the names of the folders
\* at the top level only, the other items are all given the first name.
NamedTrees(max) ==
    { [n |-> t.n, parent |-> t.parent, kind |-> t.kind, name |-> nm] :
        t \in Trees(max), nm \in [1..max -> 1..MaxNames] }

\* folder['name']
Name(t, item) == t.name[item.id]

\* _list_items(service, folder_id, depth, recursive = True) when no remote call
\* fails: page after page, the page's files and then what the nested calls on the
\* page's folders return
RECURSIVE ListRecursive(_, _, _, _)
RECURSIVE ListNested(_, _, _, _)
ListRecursive(t, c, depth, page_token) ==
    LET response == ListPage(t, c, page_token)
    IN response.files
         \o (IF MayDescend(TRUE, depth) THEN ListNested(t, response.files, 1, depth) ELSE <<>>)
         \o (IF response.nextPageToken = None THEN <<>>
             ELSE ListRecursive(t, c, depth, response.nextPageToken))

ListNested(t, files, i, depth) ==
    IF i > Len(files) THEN <<>>
    ELSE (IF IsFolder(files[i]) THEN ListRecursive(t, files[i].id, NextDepth(depth), None)
          ELSE <<>>)
           \o ListNested(t, files, i + 1, depth)

\* Counter([... mimeType ...])['application/vnd.google-apps.folder']
FolderCount(items) == Len(SelectSeq(items, IsFolder))

\* sum([folder['nested_folder_count'] for folder in folder_counts.values()])
RECURSIVE SumNested(_, _)
SumNested(map, i) ==
    IF i > Len(map) THEN 0 ELSE map[i][2].nested_folder_count + SumNested(map, i + 1)

\* the listing of the source root, filtered to folders
CountList ==
    /\ counting.pc = "start"
    /\ counting' = [counting EXCEPT !.pc = "loop",
                        !.folders = SelectSeq(ListAll(tree, Root), IsFolder)]
    /\ UNCHANGED <<tree, warnings, listVars, copyVars>>

\* one pass of for folder in folders: folder_counts[folder['name']] = {...}
CountFolder ==
    /\ counting.pc = "loop" /\ counting.idx <= Len(counting.folders)
    /\ LET folder == counting.folders[counting.idx]
           folder_items == ListRecursive(tree, folder.id, 0, None)
           total_count == Len(folder_items)
           folder_count == FolderCount(folder_items)
           file_count == total_count - folder_count
       IN counting' = [counting EXCEPT
              !.idx = counting.idx + 1,
              !.folder_counts = MapPut(@, Name(tree, folder),
                   [nested_file_count |-> file_count, nested_folder_count |-> folder_count])]
    /\ UNCHANGED <<tree, warnings, listVars, copyVars>>

\* folder_counts['total_nested_folder_count'] = sum([len(folders)] + [...]); return
CountTotal ==
    /\ counting.pc = "loop" /\ counting.idx > Len(counting.folders)
    /\ counting' = [counting EXCEPT !.pc = "done",
              !.total_nested_folder_count =
                   Len(counting.folders) + SumNested(counting.folder_counts, 1)]
    /\ UNCHANGED <<tree, warnings, listVars, copyVars>>

InitCount ==
    /\ tree \in NamedTrees(MaxCountNodes)
    /\ \A i \in DOMAIN tree.name :
          (i > tree.n \/ tree.kind[i] # FOLDER \/ tree.parent[i] # Root) => tree.name[i] = 1
    /\ counting = [NotCounting EXCEPT !.pc = "start"]
    /\ recursive = TRUE
    /\ lstack = <<>>
    /\ lret = NoRet
    /\ lcalls = 0
    /\ lfails = 0
    /\ warnings = 0
    /\ event = NoEvent
    /\ BATCH_SIZE = 1
    /\ phase = "count"
    /\ cstack = <<>>
    /\ futures = <<>>
    /\ dest = {}
    /\ run = NewRun
    /\ dfsResult = [kind |-> "none"]
    /\ bfsResult = [kind |-> "none"]

NextCount == CountList \/ CountFolder \/ CountTotal

SpecCount == InitCount /\ [][NextCount]_vars

----------------------------------------------------------------------------
(***************************************************************************)
(* The script: count_source_child_items_by_folder and then                 *)
(* copy_source_items_to_dest_folder on the same tree, no remote failure.   *)
(***************************************************************************)
\* copy_source_items_to_dest_folder(), once the counting has returned
StartCopy ==
    /\ phase = "count" /\ counting.pc = "done"
    /\ phase' = "dfs"
    /\ cstack' = <<Frame("dfs", Root, DESTINATION_FOLDER_ID, 0)>>
    /\ UNCHANGED <<tree, counting, warnings, listVars, BATCH_SIZE, futures, dest, run,
                   dfsResult, bfsResult>>

InitScript ==
    /\ tree \in NamedTrees(MaxCountNodes)
    /\ \A i \in DOMAIN tree.name :
          (i > tree.n \/ tree.kind[i] # FOLDER \/ tree.parent[i] # Root) => tree.name[i] = 1
    /\ counting = [NotCounting EXCEPT !.pc = "start"]
    /\ BATCH_SIZE \in 1..MaxBatchSize
    /\ phase = "count"
    /\ cstack = <<>>
    /\ futures = <<>>
    /\ dest = {}
    /\ run = NewRun
    /\ dfsResult = [kind |-> "none"]
    /\ bfsResult = [kind |-> "none"]
    /\ recursive = TRUE
    /\ lstack = <<>>
    /\ lret = NoRet
    /\ lcalls = 0
    /\ lfails = 0
    /\ warnings = 0
    /\ event = NoEvent

NextScript ==
    \/ CountList
    \/ CountFolder
    \/ CountTotal
    \/ StartCopy
    \/ CopyEnter
    \/ \E k \in DOMAIN futures : EmptyBatch(k)
    \/ \E k \in DOMAIN futures : CallbackLoad(k)
    \/ \E k \in DOMAIN futures : CallbackStore(k)
    \/ CopyJoin
    \/ CopyRecurse

SpecScript == InitScript /\ [][NextScript]_vars

----------------------------------------------------------------------------
(***************************************************************************)
(* Properties of _list_items, checked under SpecList.                      *)
(***************************************************************************)
ListDone == lstack = <<>>
ListReturned == ListDone /\ lret.kind = "value"

SeqIds(items) == { items[k].id : k \in DOMAIN items }
ItemsWithin(t, level) == { i \in 1..t.n : Level(t, i) <= level }

\* C4: a recursive listing started at depth 0 lists no container that sits more
\* than MAX_RECURSION_DEPTH descents below the start container, and what it returns
\* holds every item down to the children of the containers MAX_RECURSION_DEPTH
\* descents down and nothing below them.
C4_DepthBound ==
    /\ \A k \in DOMAIN lstack :
          /\ lstack[k].depth <= MAX_RECURSION_DEPTH
          /\ Level(tree, lstack[k].folder_id) <= MAX_RECURSION_DEPTH
    /\ (ListReturned /\ recursive) =>
          SeqIds(lret.items) = ItemsWithin(tree, MAX_RECURSION_DEPTH + 1)

\* a recursive listing has returned for a tree with an item below the horizon
C4_Witness ==
    /\ ListReturned /\ recursive
    /\ \E i \in 1..tree.n : Level(tree, i) = MAX_RECURSION_DEPTH + 2
    /\ \E i \in 1..tree.n : Level(tree, i) = MAX_RECURSION_DEPTH + 1 /\ i \in SeqIds(lret.items)

\* the containers a recursive traversal stops at: one level below the last listed
CeilingFolders(t) ==
    { i \in 1..t.n : t.kind[i] = FOLDER /\ Level(t, i) = MAX_RECURSION_DEPTH + 1 }

\* C5: when a recursive listing has returned, one depth-limit warning has been
\* logged for every container it did not descend into because of the depth limit.
C5_DepthLimitEventPerBranch ==
    (ListReturned /\ recursive /\ lfails = 0) =>
        warnings = Cardinality(CeilingFolders(tree))

\* C6: a non-recursive single-page listing that returns after k failed calls
\* returns exactly the page's items, has made exactly k + 1 remote calls, and
\* k < MAX_RETRIES.
SinglePage(t, c) == Len(Children(t, c)) <= PageSize

C7_RetryIffRetryable ==
    (event.type \in {"retry", "break", "propagate"} /\ event.error.origin = "remote") =>
        (event.type = "retry" <=>
            \/ event.error.rateLimitExceeded
            \/ event.error.cls = "HttpError" /\ event.error.status \in {500, 503}
            \/ event.error.cls \in {"SSLError", "TimeoutError", "ValueError"})

\* C8: the failure raised when a listing has used all MAX_RETRIES attempts is never
\* handled by an enclosing _list_items as a retryable error.
C8_ExhaustionDistinct ==
    event.type = "retry" =>
        ~(event.error.origin = "_list_items" /\ event.error.attempts = MAX_RETRIES)

\* C19: a recursive listing that met no failure returns the pre-order of the
\* subtree down to the depth limit: every folder is followed at once by the items
\* of its own subtree, its next sibling coming after them.
C19_PreOrder ==
    LET RECURSIVE PreOrder(_, _, _)
        PreOrder(c, depth, i) ==
            LET siblings == Children(tree, c)
            IN IF i > Len(siblings) THEN <<>>
               ELSE <<siblings[i]>>
                      \o (IF IsFolder(siblings[i]) /\ depth < MAX_RECURSION_DEPTH
                          THEN PreOrder(siblings[i].id, depth + 1, 1) ELSE <<>>)
                      \o PreOrder(c, depth, i + 1)
    IN (ListReturned /\ recursive /\ lfails = 0) => lret.items = PreOrder(Root, 0, 1)

\* the number of pages of a listing of n items: an empty listing is one empty page
NumPages(n) == IF n = 0 THEN 1 ELSE (n + PageSize - 1) \div PageSize

\* C20: in a non-recursive listing, before every remote call the items gathered
\* are those of the pages before the cursor, each once and in order, and the calls
\* made are one per gathered page and one per failure; the listing returns every
\* item once after one call per page and one per failure.
C20_RetryResumesAtPage ==
    ~recursive =>
        /\ lstack # <<>> =>
              /\ Top.items = SubSeq(Children(tree, Root), 1,
                                    Min(Top.page_token * PageSize, Len(Children(tree, Root))))
              /\ lcalls = lfails + Top.page_token
        /\ ListReturned =>
              /\ lret.items = Children(tree, Root)
              /\ lcalls = lfails + NumPages(Len(Children(tree, Root)))

\* the fetch of a page after the first has just failed and is about to be retried
C20_RetryWitness ==
    /\ ~recursive /\ lstack # <<>>
    /\ event.type = "retry" /\ event.error.origin = "remote"
    /\ Top.page_token # None /\ Top.items # <<>>

\* C23: the list a recursive listing returns holds no item twice, whatever calls
\* failed on the way.
C23_NoDuplicates ==
    (ListReturned /\ recursive) =>
        \A j \in DOMAIN lret.items : \A k \in DOMAIN lret.items :
            lret.items[j].id = lret.items[k].id => j = k

----------------------------------------------------------------------------
(***************************************************************************)
(* Properties of the replication, checked under SpecCopy.                  *)
(***************************************************************************)
RECURSIVE MaxLevel(_, _)
MaxLevel(t, i) ==
    IF i = 0 THEN 0
    ELSE LET rest == MaxLevel(t, i - 1)
         IN IF Level(t, i) > rest THEN Level(t, i) ELSE rest

\* the depth of the tree: the level of its deepest item
TreeDepth(t) == MaxLevel(t, t.n)

OfKind(t, kind) == { i \in 1..t.n : t.kind[i] = kind }

\* C1: when the depth-first replication of a tree no deeper than
\* MAX_RECURSION_DEPTH has returned, no per-item operation has failed and no two
\* callbacks ran at the same time, copied_file_count is the number of files of the
\* tree and copied_folder_count the number of folders below the root.
C1_DfsCountsWholeTree ==
    (/\ dfsResult.kind = "value"
     /\ TreeDepth(tree) <= MAX_RECURSION_DEPTH
     /\ dfsResult.run.failed = 0
     /\ ~dfsResult.run.overlap) =>
        /\ dfsResult.counts.copied_file_count = Cardinality(OfKind(tree, FILE))
        /\ dfsResult.counts.copied_folder_count = Cardinality(OfKind(tree, FOLDER))

\* such a run has returned for a tree of depth MAX_RECURSION_DEPTH that holds
\* files inside folders
C1_Witness ==
    /\ dfsResult.kind = "value"
    /\ TreeDepth(tree) = MAX_RECURSION_DEPTH
    /\ dfsResult.run.failed = 0
    /\ ~dfsResult.run.overlap
    /\ \E i \in OfKind(tree, FILE) : Level(tree, i) = MAX_RECURSION_DEPTH
    /\ Cardinality(OfKind(tree, FOLDER)) >= 2

\* C2: for a tree no deeper than MAX_RECURSION_DEPTH and with no failed remote
\* operation, the depth-first and the level-order replication return the same
\* copied_file_count and the same copied_folder_count.
C2_DfsBfsSameCounts ==
    (/\ dfsResult.kind = "value" /\ bfsResult.kind = "value"
     /\ TreeDepth(tree) <= MAX_RECURSION_DEPTH
     /\ dfsResult.run.failed = 0 /\ bfsResult.run.failed = 0) =>
        dfsResult.counts = bfsResult.counts

\* C3: the level-order replication never holds in its queue a source folder that
\* sits more than MAX_RECURSION_DEPTH levels below the root, and with no failure
\* it copies exactly the items the depth-first replication copies.
C3_BfsHonoursCeiling ==
    /\ (phase = "bfs" /\ cstack # <<>>) =>
          \A k \in DOMAIN CTop.queue : Level(tree, CTop.queue[k][1]) <= MAX_RECURSION_DEPTH
    /\ (dfsResult.kind = "value" /\ bfsResult.kind = "value"
           /\ dfsResult.run.failed = 0 /\ bfsResult.run.failed = 0) =>
          dfsResult.copied = bfsResult.copied

CeilDiv(n, b) == (n + b - 1) \div b

RECURSIVE Concat(_, _)
Concat(fs, i) ==
    IF i > Len(fs) THEN <<>> ELSE fs[i].chunk \o Concat(fs, i + 1)

\* the batch groups built for source folder s, in submission order
GroupsOf(s) == SelectSeq(futures, LAMBDA fu : fu.src = s)

\* the source folders the current executor holds batch groups for
Submitted ==
    IF CTop.mode = "dfs" THEN {CTop.source_folder_id}
    ELSE { futures[k].src : k \in DOMAIN futures }

\* C9: the batch groups built for a container with N listed items are
\* ceil(N / BATCH_SIZE) in number, and their items, taken in order, are the listed
\* items, each exactly once.
C9_BatchPartition ==
    (cstack # <<>> /\ CTop.pc = "wait") =>
        \A s \in Submitted :
            /\ Len(GroupsOf(s)) = CeilDiv(Len(ListAll(tree, s)), BATCH_SIZE)
            /\ Concat(GroupsOf(s), 1) = ListAll(tree, s)

\* what the remote created under the parents the current executor's groups name
Made ==
    IF CTop.mode = "dfs" THEN { d \in dest : d.parent = CTop.destination_folder_id }
    ELSE { d \in dest : \E k \in DOMAIN futures : futures[k].parent_id = d.parent }

MadeOfKind(kind) == { d \in Made : tree.kind[d.source] = kind }

\* C10: when the groups of a batch step in which an item operation failed have all
\* completed, the counters have grown by one for each file and each folder the
\* remote created, every created folder is in the id map, and nothing else is.
C10_FailureIsolated ==
    (cstack # <<>> /\ CTop.pc = "wait" /\ AllDone /\ run.failed > 0) =>
        /\ CTop.mode = "dfs" =>
              /\ CTop.copied_file_count = Cardinality(MadeOfKind(FILE))
              /\ CTop.copied_folder_count = Cardinality(MadeOfKind(FOLDER))
        /\ CTop.mode = "bfs" =>
              /\ CTop.copied_file_count = run.okFiles
              /\ CTop.copied_folder_count = run.okFolders
        /\ \A d \in MadeOfKind(FOLDER) : MapGet(CTop.folder_id_map, d.source) = d.id
        /\ Len(CTop.folder_id_map) = Cardinality(MadeOfKind(FOLDER))

\* C15: when the groups of a batch step have all completed, the two counters
\* together have grown by the number of callbacks that reported success, and the
\* id map holds every folder the remote created.
C15_NoLostUpdate ==
    (cstack # <<>> /\ CTop.pc = "wait" /\ AllDone) =>
        /\ CTop.mode = "dfs" =>
              CTop.copied_file_count + CTop.copied_folder_count = Cardinality(Made)
        /\ CTop.mode = "bfs" =>
              CTop.copied_file_count + CTop.copied_folder_count
                  = run.okFiles + run.okFolders
        /\ \A d \in MadeOfKind(FOLDER) : MapGet(CTop.folder_id_map, d.source) = d.id

\* C16: no step of a replication lowers copied_file_count or copied_folder_count
\* of the frame that is running.
C16_CountersNeverDecrease ==
    [][(cstack # <<>> /\ Len(cstack') = Len(cstack)) =>
          /\ CTop'.copied_file_count >= CTop.copied_file_count
          /\ CTop'.copied_folder_count >= CTop.copied_folder_count]_vars

\* the source folders on the queue of _copy_items_bfs
Queued == { CTop.queue[k][1] : k \in DOMAIN CTop.queue }

\* the items whose parent the current run has created, or is the root
Reached ==
    { i \in 1..tree.n : tree.parent[i] = Root \/ \E d \in dest : d.source = tree.parent[i] }

\* C17: the batch groups in flight all belong to one level; when the level-order
\* replication is about to take a level off its queue, every item of the levels
\* before it has had its callback, and the queue holds exactly the folders that the
\* level before created, each with the id the remote gave it.
C17_LevelBarrier ==
    (phase = "bfs" /\ cstack # <<>>) =>
        /\ \A j \in DOMAIN futures : \A k \in DOMAIN futures :
              Level(tree, futures[j].src) = Level(tree, futures[k].src)
        /\ CTop.pc = "enter" =>
              /\ Cardinality({ i \in Reached : tree.parent[i] \notin Queued })
                     = Cardinality(dest) + run.failed
              /\ \A j \in DOMAIN CTop.queue : \A k \in DOMAIN CTop.queue :
                    Level(tree, CTop.queue[j][1]) = Level(tree, CTop.queue[k][1])
              /\ \A d \in dest : tree.kind[d.source] = FOLDER =>
                    \/ d.source \in Queued /\ MapGet(CTop.queue, d.source) = d.id
                    \/ \E q \in Queued : Level(tree, d.source) < Level(tree, q)
                    \/ CTop.queue = <<>>
              /\ \A q \in Queued \ {Root} : \E d \in dest : d.source = q

\* the third level is about to be taken off the queue after two levels that
\* created three items or more
C17_Witness ==
    /\ phase = "bfs" /\ cstack # <<>> /\ CTop.pc = "enter"
    /\ CTop.queue # <<>> /\ Level(tree, CTop.queue[1][1]) = 2
    /\ Cardinality(dest) >= 3

\* C21: every item created in the destination lies under the copy of its source
\* parent: under the destination root when its parent is the source root, else
\* under the folder that was created for its parent.
C21_StructurePreserved ==
    \A d \in dest :
        /\ d.parent = DestId(tree, tree.parent[d.source])
        /\ tree.parent[d.source] # Root =>
              \E e \in dest : e.source = tree.parent[d.source] /\ e.id = d.parent

\* the level-order run has created an item two levels down after the depth-first
\* run created one
C21_Witness ==
    /\ phase = "bfs"
    /\ \E d \in dest : Level(tree, d.source) = 2
    /\ \E i \in dfsResult.copied : Level(tree, i) = 2

----------------------------------------------------------------------------
(***************************************************************************)
(* Properties of the replication under failures of listings and of whole   *)
(* batch groups, checked under SpecFault.                                  *)
(***************************************************************************)
\* C11: a replication, depth-first or level-order, does not raise because the
\* listing of a container other than the source root failed: it returns counters.
C11_ListFailureAbandonsSubtreeOnly ==
    /\ (dfsResult.kind = "raise" /\ dfsResult.exc.origin = "_list_items") =>
          dfsResult.folder_id = Root
    /\ (bfsResult.kind = "raise" /\ bfsResult.exc.origin = "_list_items") =>
          bfsResult.folder_id = Root

\* C12: a replication, depth-first or level-order, does not raise because the
\* execute call of a batch group raised, and the counters it returns add up to the
\* items the other groups created (callbacks not overlapping).
C12_BatchFailureKeepsProgress ==
    /\ dfsResult.kind = "raise" => dfsResult.exc.origin # "batch.execute"
    /\ bfsResult.kind = "raise" => bfsResult.exc.origin # "batch.execute"
    /\ (dfsResult.kind = "value" /\ ~dfsResult.run.overlap) =>
          dfsResult.counts.copied_file_count + dfsResult.counts.copied_folder_count
              = Cardinality(dfsResult.copied)
    /\ (bfsResult.kind = "value" /\ ~bfsResult.run.overlap) =>
          bfsResult.counts.copied_file_count + bfsResult.counts.copied_folder_count
              = Cardinality(bfsResult.copied)

\* C13: when the groups of a batch step are all over, no item operation failed and
\* the only groups whose execute call raised were rate-limited, every item of every
\* group has been created in the destination.
C13_RateLimitedGroupResubmitted ==
    (/\ cstack # <<>> /\ CTop.pc = "wait" /\ AllDone
     /\ run.failed = 0
     /\ \A k \in Raised : futures[k].state = "HttpError rateLimitExceeded") =>
        \A k \in DOMAIN futures : \A j \in DOMAIN futures[k].chunk :
            \E d \in dest : d.source = futures[k].chunk[j].id

\* C18: every step by which a frame leaves its batch step, to recurse, to enqueue,
\* to return or to raise, is taken when each group it submitted is over.
C18_NoProgressWhileInFlight ==
    [][(/\ cstack # <<>> /\ CTop.pc \in {"wait", "unwind"}
        /\ (cstack' = <<>> \/ CTop'.pc \notin {"wait", "unwind"})) =>
          \A k \in DOMAIN futures : futures[k].state \notin {"pending", "running"}]_vars

\* the depth-first replication has raised the exception of a batch group after
\* another group of the same step created an item
C18_Witness ==
    /\ dfsResult.kind = "raise" /\ dfsResult.exc.origin = "batch.execute"
    /\ \E i \in dfsResult.copied : tree.parent[i] = dfsResult.folder_id

----------------------------------------------------------------------------
(***************************************************************************)
(* Properties of count_source_child_items_by_folder, checked under         *)
(* SpecCount.                                                              *)
(***************************************************************************)
\* C14: the total_nested_folder_count that is returned is the number of folders of
\* the tree that the depth limit lets the listings reach: the top-level folders and
\* every folder at most MAX_RECURSION_DEPTH + 1 levels below one.
C14_TotalNestedFolderCount ==
    counting.pc = "done" =>
        counting.total_nested_folder_count =
            Cardinality({ i \in 1..tree.n : /\ tree.kind[i] = FOLDER
                                            /\ Level(tree, i) <= MAX_RECURSION_DEPTH + 2 })

----------------------------------------------------------------------------
(***************************************************************************)
(* Properties of the level-order replication on its own, checked under     *)
(* SpecBfs.                                                                *)
(***************************************************************************)
\* the queue holds no source folder twice and none whose items have been handled
QueueFresh ==
    (cstack # <<>> /\ CTop.pc = "enter") =>
        /\ \A j \in DOMAIN CTop.queue : \A k \in DOMAIN CTop.queue :
              CTop.queue[j][1] = CTop.queue[k][1] => j = k
        /\ \A q \in Queued : \A d \in dest : tree.parent[d.source] # q

\* C22: the level-order replication returns, its queue empty, and no source folder
\* is taken off the queue twice.
C22_BfsTerminates ==
    /\ [](QueueFresh /\ (bfsResult.kind = "value" => cstack = <<>>))
    /\ <>(bfsResult.kind = "value")

\* the level-order replication has returned after three levels
C22_Witness ==
    /\ bfsResult.kind = "value" /\ cstack = <<>>
    /\ \E i \in bfsResult.copied : Level(tree, i) = 3

----------------------------------------------------------------------------
(***************************************************************************)
(* Properties of the script, checked under SpecScript.                     *)
(***************************************************************************)
\* C24: when the top-level folders have different names and the callbacks of the
\* replication did not overlap, the total_nested_folder_count that the counting
\* returned is the copied_folder_count that the depth-first replication returns.
C24_SameHorizon ==
    (/\ counting.pc = "done" /\ dfsResult.kind = "value"
     /\ ~dfsResult.run.overlap
     /\ \A j \in DOMAIN counting.folders : \A k \in DOMAIN counting.folders :
           Name(tree, counting.folders[j]) = Name(tree, counting.folders[k]) => j = k) =>
        counting.total_nested_folder_count = dfsResult.counts.copied_folder_count

====
